---- MODULE Spec2Model ----
(***************************************************************************)
(* A model of main.py, the Streamlit front end that extracts a shortcode   *)
(* from an Instagram URL, runs the instaloader command-line tool on it,    *)
(* and relocates the downloaded files into the output folder.              *)
(*                                                                         *)
(* Strings are TLA+ strings; Len, \o and SubSeq act on them character by   *)
(* character.  The file system below the current working directory is a    *)
(* function from paths (sequences of names) to 0 for a directory and to a  *)
(* positive content identity for a regular file.                           *)
(***************************************************************************)
EXTENDS Integers, Sequences, FiniteSets, TLC

VARIABLES
    pc,                 \* position of main() in the current script run
    url,                \* the form's "Instagram Post URL" field
    output_folder,      \* the form's "Output Folder Name" field
    shortcode,          \* main(): shortcode
    message,            \* text returned by download_content / raised by extract_shortcode
    shown,              \* outcome messages main() has rendered, in order
    proc,               \* the instaloader child process: "none", "running", "exited"
    returncode,         \* process.returncode (-1 while there is none)
    stderr,             \* the child's standard error text
    launches,           \* number of subprocess.Popen calls of this request
    fs,                 \* the file system below os.getcwd()
    items,              \* move_and_collect_files: entries of os.listdir(current_dir) not yet visited
    item,               \* move_and_collect_files: the directory being processed ("" if none)
    files,              \* move_and_collect_files: entries of os.listdir(item_path) not yet moved
    moved_files_paths,  \* move_and_collect_files: the list it returns
    warnings,           \* directories st.warning was called for
    visited,            \* candidate directories whose try block was entered
    faults,             \* file system faults raised by the environment so far
    fs_before,          \* the file system when the request was submitted
    fs_at_move,         \* the file system when os.listdir(current_dir) was taken
    tool_dirs,          \* top-level directories the external tool created in this request
    last_move           \* the last shutil.move that succeeded

vars == << pc, url, output_folder, shortcode, message, shown, proc, returncode,
           stderr, launches, fs, items, item, files, moved_files_paths, warnings,
           visited, faults, fs_before, fs_at_move, tool_dirs, last_move >>

-----------------------------------------------------------------------------
(* Bounds of the model *)

\* number of segments a URL of the extraction specification is built from
MaxSegments == 3
\* number of files the external tool writes in one download
MaxToolFiles == 2
\* number of file system faults the environment raises in one request
MaxFaults == 1
\* number of phrases an error text of the external tool is built from
MaxPhrases == 2

-----------------------------------------------------------------------------
(* Strings *)

Char(s, i) == SubSeq(s, i, i)

Min(S) == CHOOSE x \in S : \A y \in S : x <= y

ToSet(q) == { q[k] : k \in 1..Len(q) }

\* Python's `needle in s`
Contains(needle, s) ==
    \E i \in 1..(Len(s) - Len(needle) + 1) : SubSeq(s, i, i + Len(needle) - 1) = needle

\* Python's s.startswith(prefix)
StartsWith(s, prefix) ==
    Len(prefix) <= Len(s) /\ SubSeq(s, 1, Len(prefix)) = prefix

UpperCase == << "A","B","C","D","E","F","G","H","I","J","K","L","M",
                "N","O","P","Q","R","S","T","U","V","W","X","Y","Z" >>
LowerCase == << "a","b","c","d","e","f","g","h","i","j","k","l","m",
                "n","o","p","q","r","s","t","u","v","w","x","y","z" >>
Digits == << "0","1","2","3","4","5","6","7","8","9" >>

LowerChar(c) ==
    IF \E k \in 1..26 : UpperCase[k] = c
    THEN LowerCase[CHOOSE k \in 1..26 : UpperCase[k] = c]
    ELSE c

\* Python's s.lower()
RECURSIVE Lower(_)
Lower(s) == IF s = "" THEN "" ELSE LowerChar(Char(s, 1)) \o Lower(SubSeq(s, 2, Len(s)))

IsSpace(c) == c \in {" ", "\n", "\t", "\r"}

\* Python's s.strip()
RECURSIVE LStrip(_)
LStrip(s) == IF s # "" /\ IsSpace(Char(s, 1)) THEN LStrip(SubSeq(s, 2, Len(s))) ELSE s
RECURSIVE RStrip(_)
RStrip(s) == IF s # "" /\ IsSpace(Char(s, Len(s))) THEN RStrip(SubSeq(s, 1, Len(s) - 1)) ELSE s
Strip(s) == RStrip(LStrip(s))

\* Python's str(n) for n >= 0
RECURSIVE Str(_)
Str(n) == IF n < 10 THEN Digits[n + 1] ELSE Str(n \div 10) \o Digits[(n % 10) + 1]

-----------------------------------------------------------------------------
(* extract_shortcode *)

\* the character class [a-zA-Z0-9_-]
IdChars == { UpperCase[k] : k \in 1..26 } \cup { LowerCase[k] : k \in 1..26 }
           \cup { Digits[k] : k \in 1..10 } \cup { "_", "-" }

\* the literal part of each regular expression, in the order of the list
patterns == << "instagram.com/p/", "instagram.com/reel/", "/p/", "/reel/" >>

\* the class is followed by * instead of +: the capture may be empty
PatternMatchAtStar(literal, s, i) ==
    /\ i + Len(literal) - 1 <= Len(s)
    /\ SubSeq(s, i, i + Len(literal) - 1) = literal

\* literal([a-zA-Z0-9_-]+) matches at position i: the literal, then at least
\* one character of the class
PatternMatchAt(literal, s, i) ==
    /\ i + Len(literal) <= Len(s)
    /\ SubSeq(s, i, i + Len(literal) - 1) = literal
    /\ Char(s, i + Len(literal)) \in IdChars

\* the last position of the run of class characters that starts at j
\* (j - 1 when the character at j is not of the class)
RECURSIVE RunEndFrom(_, _)
RunEndFrom(s, j) ==
    IF j <= Len(s) /\ Char(s, j) \in IdChars THEN RunEndFrom(s, j + 1) ELSE j - 1

\* ([a-zA-Z0-9_-]+) is greedy: group 1 is the whole run
Group(s, j) == SubSeq(s, j, RunEndFrom(s, j))

\* re.search(pattern, url): the leftmost match
re_search(literal, s) ==
    LET hits == { i \in 1..Len(s) : PatternMatchAt(literal, s, i) }
    IN  IF hits = {}
        THEN [matched |-> FALSE, group1 |-> ""]
        ELSE [matched |-> TRUE, group1 |-> Group(s, Min(hits) + Len(literal))]

\* the patterns tried from the last to the first
extract_shortcode_reversed(u) ==
    LET hit == { k \in 1..Len(patterns) : re_search(patterns[k], u).matched }
    IN  IF hit = {}
        THEN [raised |-> TRUE, value |-> "Invalid Instagram post URL format."]
        ELSE [raised |-> FALSE,
              value |-> re_search(patterns[CHOOSE k \in hit : \A j \in hit : j <= k], u).group1]

\* for pattern in patterns: first match wins; otherwise raise ValueError
extract_shortcode(u) ==
    LET hit == { k \in 1..Len(patterns) : re_search(patterns[k], u).matched }
    IN  IF hit = {}
        THEN [raised |-> TRUE, value |-> "Invalid Instagram post URL format."]
        ELSE [raised |-> FALSE, value |-> re_search(patterns[Min(hit)], u).group1]

-----------------------------------------------------------------------------
(* download_content: classification of a failed run *)

\* the private bucket is chosen by "Private" alone
classify_error_private_only(err) ==
    LET error_message == Strip(err)
    IN  IF Contains("Private", error_message)
        THEN "This post is private or requires a login."
        ELSE IF Contains("404", error_message) \/ Contains("not found", Lower(error_message))
        THEN "This post could not be found (404 Error)."
        ELSE IF Contains("Rate limit", error_message)
        THEN "Instagram rate limit reached. Please try again later."
        ELSE "Download failed: " \o (IF error_message # "" THEN error_message ELSE "Unknown error")

\* the else branch of `if process.returncode == 0`
classify_error(err) ==
    LET error_message == Strip(err)
    IN  IF Contains("Private", error_message) \/ Contains("Login required", error_message)
        THEN "This post is private or requires a login."
        ELSE IF Contains("404", error_message) \/ Contains("not found", Lower(error_message))
        THEN "This post could not be found (404 Error)."
        ELSE IF Contains("Rate limit", error_message)
        THEN "Instagram rate limit reached. Please try again later."
        ELSE "Download failed: " \o (IF error_message # "" THEN error_message ELSE "Unknown error")

-----------------------------------------------------------------------------
(* Paths and the file system *)

\* the components of s between "/" separators
RECURSIVE Split(_)
Split(s) ==
    LET slashes == { i \in 1..Len(s) : Char(s, i) = "/" }
    IN  IF slashes = {}
        THEN << s >>
        ELSE << SubSeq(s, 1, Min(slashes) - 1) >>
             \o Split(SubSeq(s, Min(slashes) + 1, Len(s)))

IsName(c) == c # "" /\ c # "."

\* the path a relative path string names: empty and "." components drop out
\* (the folder inputs of the model hold no ".." and are not absolute)
Resolve(s) == SelectSeq(Split(s), IsName)

\* os.path.join(a, b) for a relative b
os_path_join(a, b) ==
    IF a = "" THEN b
    ELSE IF Char(a, Len(a)) = "/" THEN a \o b
    ELSE a \o "/" \o b

\* os.path.splitext(name) for a name without separators: the extension starts
\* at the last dot, unless only dots precede it
os_path_splitext(name) ==
    LET dots == { i \in 1..Len(name) : Char(name, i) = "." }
        d == CHOOSE i \in dots : \A j \in dots : j <= i
    IN  IF dots # {} /\ \E j \in 1..(d - 1) : Char(name, j) # "."
        THEN << SubSeq(name, 1, d - 1), SubSeq(name, d, Len(name)) >>
        ELSE << name, "" >>

IsPrefix(p, q) == Len(p) <= Len(q) /\ SubSeq(q, 1, Len(p)) = p

Parent(p) == SubSeq(p, 1, Len(p) - 1)

IsDirPath(f, p) == p = << >> \/ (p \in DOMAIN f /\ f[p] = 0)

\* os.path.exists(s)
os_path_exists(f, s) == s # "" /\ (Resolve(s) = << >> \/ Resolve(s) \in DOMAIN f)

\* os.listdir(p): the names of the entries of directory p
os_listdir(f, p) ==
    { q[Len(q)] : q \in { r \in DOMAIN f : Len(r) = Len(p) + 1 /\ IsPrefix(p, r) } }

\* os.makedirs(s) raises: the empty path, or a component that is a regular file
makedirs_raises(f, s) ==
    \/ s = ""
    \/ \E k \in 1..Len(Resolve(s)) :
          /\ SubSeq(Resolve(s), 1, k) \in DOMAIN f
          /\ f[SubSeq(Resolve(s), 1, k)] # 0

\* os.makedirs(s): every missing component becomes a directory
os_makedirs(f, s) ==
    LET p == Resolve(s)
        new == { SubSeq(p, 1, k) : k \in 1..Len(p) } \ DOMAIN f
    IN  [ q \in DOMAIN f \cup new |-> IF q \in DOMAIN f THEN f[q] ELSE 0 ]

\* where shutil.move(src, dst) puts src: inside dst when dst is a directory
RealDst(f, src, dst) == IF IsDirPath(f, dst) THEN dst \o << src[Len(src)] >> ELSE dst

\* shutil.move(src, dst) raises OSError (shutil.Error is one)
move_raises(f, src, dst) ==
    \/ src \notin DOMAIN f
    \/ IsDirPath(f, dst) /\ RealDst(f, src, dst) \in DOMAIN f
    \/ ~IsDirPath(f, Parent(RealDst(f, src, dst)))
    \/ f[src] = 0 /\ IsPrefix(src, RealDst(f, src, dst))
    \/ f[src] = 0 /\ RealDst(f, src, dst) \in DOMAIN f

\* shutil.move(src, dst) when it does not raise: os.rename of src and all below it
shutil_move(f, src, dst) ==
    LET real == RealDst(f, src, dst)
        moved == { q \in DOMAIN f : IsPrefix(src, q) }
        rest == (DOMAIN f \ moved) \ { real }
        To(q) == real \o SubSeq(q, Len(src) + 1, Len(q))
        From(q) == src \o SubSeq(q, Len(real) + 1, Len(q))
    IN  [ q \in rest \cup { To(m) : m \in moved } |->
            IF q \in rest THEN f[q] ELSE f[From(q)] ]

\* shutil.rmtree(p)
shutil_rmtree(f, p) == [ q \in { r \in DOMAIN f : ~IsPrefix(p, r) } |-> f[q] ]

-----------------------------------------------------------------------------
(* move_and_collect_files: the destination of one file *)

\* the while loop: the first base_counter.ext that does not exist
RECURSIVE RenameLoop(_, _, _, _, _)
RenameLoop(f, target_folder, base, ext, counter) ==
    LET new_name == base \o "_" \o Str(counter) \o ext
        candidate == os_path_join(target_folder, new_name)
    IN  IF os_path_exists(f, candidate)
        THEN RenameLoop(f, target_folder, base, ext, counter + 1)
        ELSE candidate

\* destination_path as shutil.move receives it
destination_path(f, target_folder, file) ==
    IF os_path_exists(f, os_path_join(target_folder, file))
    THEN RenameLoop(f, target_folder, os_path_splitext(file)[1], os_path_splitext(file)[2], 1)
    ELSE os_path_join(target_folder, file)

\* the condition under which a listed entry is processed as a source directory
IsSourceCandidate(f, it, target_folder) ==
    /\ IsDirPath(f, << it >>)
    /\ it # target_folder
    /\ ~StartsWith(it, ".")

-----------------------------------------------------------------------------
(* The inputs of a request and the environment *)

\* values of the URL field
FormUrls ==
    { "",
      "https://www.instagram.com/reel/Cx1/?igsh=1",
      "https://www.instagram.com/Cx1/",
      "https://www.instagram.com/p/",
      "reel/Cx1" }

\* values of the output folder field: the default, spellings of the same
\* directory, a nested folder and the cleared field
FolderInputs ==
    { "insta_downloads", "insta_downloads/", "./insta_downloads", "insta_downloads/sub", "" }

\* the segments the URLs of the extraction specification are built from
UrlSegments ==
    { "https://www.", "instagram.com", "/p/", "/reel/", "/reel", "/", "Cx1", "a-b_", "?igsh=1", "p" }

RECURSIVE Concatenations(_, _)
Concatenations(parts, n) ==
    IF n = 0 THEN { "" }
    ELSE LET shorter == Concatenations(parts, n - 1)
         IN  shorter \cup { a \o b : a \in shorter, b \in parts }

ExtractUrls == Concatenations(UrlSegments, MaxSegments)

\* the phrases the error texts of the external tool are built from
ErrorPhrases ==
    { "Private", "Login required", "404", "Not Found", "Rate limit", "timed out", " " }

ErrorTexts == Concatenations(ErrorPhrases, MaxPhrases)

ExitCodes == { 0, 1 }

\* --dirname-pattern={target}, the target being -<shortcode>
ToolDirName(code) == "-" \o code

\* --filename-pattern gives the files of one post a common stem: the picture
\* a.jpg, then a_1.jpg, a_2.jpg, ... for the further pictures the tool writes
ToolFileName(k) == IF k = 1 THEN "a.jpg" ELSE "a_" \o Str(k - 1) \o ".jpg"

\* the tool writes the first n of these files
ToolOutputs == { 1..n : n \in 1..MaxToolFiles }

\* the file system after the external tool wrote the files of S
ToolWrites(f, code, S) ==
    LET dir == << ToolDirName(code) >>
        new == { dir } \cup { dir \o << ToolFileName(k) >> : k \in S }
    IN  [ q \in DOMAIN f \cup new |->
            IF q = dir THEN 0
            ELSE IF q \in new THEN 10 + (CHOOSE k \in S : q = dir \o << ToolFileName(k) >>)
            ELSE f[q] ]

Tree(entries) == [ p \in { e[1] : e \in entries } |-> (CHOOSE e \in entries : e[1] = p)[2] ]

\* the script itself and a hidden directory
BaseEntries ==
    { << << "main.py" >>, 1 >>, << << ".git" >>, 0 >>, << << ".git", "HEAD" >>, 2 >> }

\* a directory of the user's own
UserEntries ==
    { << << "photos" >>, 0 >>, << << "photos", "a.jpg" >>, 3 >> }

\* what earlier requests left in the default output folder
OutputEntries ==
    { {},
      { << << "insta_downloads" >>, 0 >>, << << "insta_downloads", "a.jpg" >>, 4 >> },
      { << << "insta_downloads" >>, 0 >>, << << "insta_downloads", "a.jpg" >>, 4 >>,
        << << "insta_downloads", "a_1.jpg" >>, 5 >> },
      { << << "insta_downloads" >>, 0 >>, << << "insta_downloads", "a.jpg" >>, 4 >>,
        << << "insta_downloads", "sub" >>, 0 >>, << << "insta_downloads", "sub", "a.jpg" >>, 6 >> } }

\* the working directory before the request: either the user's directory
\* beside a not yet created output folder, or one of the output folders
InitialFileSystems ==
    { Tree(BaseEntries \cup UserEntries) } \cup { Tree(BaseEntries \cup O) : O \in OutputEntries }

NoMove == [ file |-> "", source |-> << >>, destination |-> "", before |-> << >> ]

-----------------------------------------------------------------------------
(* The script run of one submitted request *)

Init ==
    /\ pc = "form"
    /\ url = ""
    /\ output_folder = "insta_downloads"
    /\ shortcode = ""
    /\ message = ""
    /\ shown = << >>
    /\ proc = "none"
    /\ returncode = -1
    /\ stderr = ""
    /\ launches = 0
    /\ fs \in InitialFileSystems
    /\ items = {}
    /\ item = ""
    /\ files = {}
    /\ moved_files_paths = << >>
    /\ warnings = {}
    /\ visited = {}
    /\ faults = 0
    /\ fs_before = fs
    /\ fs_at_move = fs
    /\ tool_dirs = {}
    /\ last_move = NoMove

\* the script reruns and check_instaloader does not find the tool: main()
\* returns after the installation notice, before the form exists
DependencyMissing ==
    /\ pc = "form"
    /\ shown' = Append(shown, "not_installed")
    /\ pc' = "done"
    /\ UNCHANGED << url, output_folder, shortcode, message, proc, returncode, stderr,
                    launches, fs, items, item, files, moved_files_paths, warnings,
                    visited, faults, fs_before, fs_at_move, tool_dirs, last_move >>

\* the form is submitted with its two fields; check_instaloader finds the tool
Submit(u, folder) ==
    /\ pc = "form"
    /\ url' = u
    /\ output_folder' = folder
    /\ fs_before' = fs
    /\ pc' = "submitted"
    /\ UNCHANGED << shortcode, message, shown, proc, returncode, stderr, launches, fs,
                    items, item, files, moved_files_paths, warnings, visited, faults,
                    fs_at_move, tool_dirs, last_move >>

\* main(): what follows extract_shortcode(url), r being its result
AfterExtraction(r) ==
    IF r.raised
    THEN /\ message' = r.value
         /\ shown' = Append(shown, "invalid_url")
         /\ pc' = "done"
         /\ UNCHANGED shortcode
    ELSE /\ shortcode' = r.value
         /\ pc' = "launch"
         /\ UNCHANGED << message, shown >>

\* main(): `if not url` and the try around extract_shortcode
ExtractStep ==
    /\ pc = "submitted"
    /\ IF url = ""
       THEN /\ shown' = Append(shown, "no_url")
            /\ pc' = "done"
            /\ UNCHANGED << shortcode, message >>
       ELSE AfterExtraction(extract_shortcode(url))
    /\ UNCHANGED << url, output_folder, proc, returncode, stderr, launches, fs, items,
                    item, files, moved_files_paths, warnings, visited, faults,
                    fs_before, fs_at_move, tool_dirs, last_move >>

\* download_content: subprocess.Popen, or the exception handler when it raises
Launch(started) ==
    /\ pc = "launch"
    /\ IF started
       THEN /\ proc' = "running"
            /\ launches' = launches + 1
            /\ pc' = "polling"
            /\ UNCHANGED << message, shown >>
       ELSE /\ message' = "An unexpected error occurred: "
            /\ shown' = Append(shown, "download_failed")
            /\ pc' = "done"
            /\ UNCHANGED << proc, launches >>
    /\ UNCHANGED << url, output_folder, shortcode, returncode, stderr, fs, items, item,
                    files, moved_files_paths, warnings, visited, faults, fs_before,
                    fs_at_move, tool_dirs, last_move >>

\* the external tool ends: with code 0 it has written its directory
ProcessExit(code, err, S) ==
    /\ proc = "running"
    /\ proc' = "exited"
    /\ returncode' = code
    /\ IF code = 0
       THEN /\ stderr' = ""
            /\ fs' = ToolWrites(fs, shortcode, S)
            /\ tool_dirs' = { ToolDirName(shortcode) } \ os_listdir(fs, << >>)
       ELSE /\ stderr' = err
            /\ UNCHANGED << fs, tool_dirs >>
    /\ UNCHANGED << pc, url, output_folder, shortcode, message, shown, launches, items,
                    item, files, moved_files_paths, warnings, visited, faults,
                    fs_before, fs_at_move, last_move >>

\* success is returned whatever the exit code
DownloadResultAlwaysTrue(code, err) ==
    /\ message' = "Download successful!"
    /\ pc' = "move"
    /\ UNCHANGED shown

\* download_content after process.communicate(), and main()'s `if success`
DownloadResult(code, err) ==
    IF code = 0
    THEN /\ message' = "Download successful!"
         /\ pc' = "move"
         /\ UNCHANGED shown
    ELSE /\ message' = classify_error(err)
         /\ shown' = Append(shown, "download_failed")
         /\ pc' = "done"

\* the progress loop (at most 95 polls, display only) ends and
\* process.communicate() returns once the child has exited
Communicate ==
    /\ pc = "polling"
    /\ proc = "exited"
    /\ DownloadResult(returncode, stderr)
    /\ UNCHANGED << url, output_folder, shortcode, proc, returncode, stderr, launches,
                    fs, items, item, files, moved_files_paths, warnings, visited,
                    faults, fs_before, fs_at_move, tool_dirs, last_move >>

-----------------------------------------------------------------------------
(* move_and_collect_files, one step per directory entry *)

\* the folder is created when missing and the working directory is listed;
\* an OSError of os.makedirs leaves the function and reaches main()'s last handler
MoveStart ==
    /\ pc = "move"
    /\ IF ~os_path_exists(fs, output_folder) /\ makedirs_raises(fs, output_folder)
       THEN /\ shown' = Append(shown, "unexpected")
            /\ pc' = "done"
            /\ UNCHANGED << fs, items, fs_at_move >>
       ELSE /\ fs' = IF os_path_exists(fs, output_folder) THEN fs
                     ELSE os_makedirs(fs, output_folder)
            /\ items' = os_listdir(fs', << >>)
            /\ fs_at_move' = fs'
            /\ pc' = "loop"
            /\ UNCHANGED shown
    /\ moved_files_paths' = << >>
    /\ UNCHANGED << url, output_folder, shortcode, message, proc, returncode, stderr,
                    launches, item, files, warnings, visited, faults, fs_before,
                    tool_dirs, last_move >>

\* the next entry of os.listdir(current_dir) that passes the `if`, in whatever
\* order the listing has; the loop passes over the entries that fail it
NextItem(it) ==
    /\ pc = "loop"
    /\ it \in items
    /\ IsSourceCandidate(fs, it, output_folder)
    /\ items' = items \ { it }
    /\ item' = it
    /\ files' = os_listdir(fs, << it >>)
    /\ visited' = visited \cup { it }
    /\ pc' = "files"
    /\ UNCHANGED << url, output_folder, shortcode, message, shown, proc, returncode,
                    stderr, launches, fs, moved_files_paths, warnings, faults,
                    fs_before, fs_at_move, tool_dirs, last_move >>

\* the error ends the whole loop
OnOSErrorAbort(dir) ==
    /\ warnings' = warnings \cup { dir }
    /\ items' = {}
    /\ item' = ""
    /\ files' = {}
    /\ pc' = "loop"

\* except OSError: a warning for this directory, then the next entry
OnOSError(dir) ==
    /\ warnings' = warnings \cup { dir }
    /\ items' = items
    /\ item' = ""
    /\ files' = {}
    /\ pc' = "loop"

\* one entry of the source directory is moved, or the move raises
MoveFile(file, fault) ==
    /\ pc = "files"
    /\ file \in files
    /\ fault => faults < MaxFaults
    /\ LET destination == destination_path(fs, output_folder, file)
           source == << item, file >>
       IN  IF fault \/ move_raises(fs, source, Resolve(destination))
           THEN /\ OnOSError(item)
                /\ faults' = IF fault THEN faults + 1 ELSE faults
                /\ UNCHANGED << fs, moved_files_paths, last_move >>
           ELSE /\ fs' = shutil_move(fs, source, Resolve(destination))
                /\ moved_files_paths' = Append(moved_files_paths, destination)
                /\ files' = files \ { file }
                /\ last_move' = [ file |-> file, source |-> source,
                                  destination |-> destination, before |-> fs ]
                /\ UNCHANGED << items, item, warnings, faults, pc >>
    /\ UNCHANGED << url, output_folder, shortcode, message, shown, proc, returncode,
                    stderr, launches, visited, fs_before, fs_at_move, tool_dirs >>

\* every listed entry was moved: shutil.rmtree(item_path), which may raise too
RemoveTree(fault) ==
    /\ pc = "files"
    /\ files = {}
    /\ fault => faults < MaxFaults
    /\ IF fault
       THEN /\ OnOSError(item)
            /\ faults' = faults + 1
            /\ UNCHANGED fs
       ELSE /\ fs' = shutil_rmtree(fs, << item >>)
            /\ item' = ""
            /\ pc' = "loop"
            /\ UNCHANGED << items, files, warnings, faults >>
    /\ UNCHANGED << url, output_folder, shortcode, message, shown, proc, returncode,
                    stderr, launches, moved_files_paths, visited, fs_before,
                    fs_at_move, tool_dirs, last_move >>

\* the listing is exhausted: the list is returned and main() reports success
MoveReturn ==
    /\ pc = "loop"
    /\ \A it \in items : ~IsSourceCandidate(fs, it, output_folder)
    /\ shown' = Append(shown, "success")
    /\ pc' = "display"
    /\ UNCHANGED << url, output_folder, shortcode, message, proc, returncode, stderr,
                    launches, fs, items, item, files, moved_files_paths, warnings,
                    visited, faults, fs_before, fs_at_move, tool_dirs, last_move >>

\* the media are displayed: os.path.getsize raises for a path that is gone,
\* which main()'s last handler reports
Display ==
    /\ pc = "display"
    /\ shown' = IF \E k \in 1..Len(moved_files_paths) :
                      ~os_path_exists(fs, moved_files_paths[k])
                THEN Append(shown, "unexpected")
                ELSE shown
    /\ pc' = "done"
    /\ UNCHANGED << url, output_folder, shortcode, message, proc, returncode, stderr,
                    launches, fs, items, item, files, moved_files_paths, warnings,
                    visited, faults, fs_before, fs_at_move, tool_dirs, last_move >>

Next ==
    \/ DependencyMissing
    \/ \E u \in FormUrls, folder \in FolderInputs : Submit(u, folder)
    \/ ExtractStep
    \/ \E started \in BOOLEAN : Launch(started)
    \/ \E code \in ExitCodes, err \in ErrorTexts, S \in ToolOutputs : ProcessExit(code, err, S)
    \/ Communicate
    \/ MoveStart
    \/ \E it \in items : NextItem(it)
    \/ \E file \in files, fault \in BOOLEAN : MoveFile(file, fault)
    \/ \E fault \in BOOLEAN : RemoveTree(fault)
    \/ MoveReturn
    \/ Display

Spec == Init /\ [][Next]_vars

\* the extraction alone, on every URL built from the segments
InitExtract ==
    /\ Init
    /\ fs = Tree(BaseEntries)

NextExtract ==
    \/ \E u \in ExtractUrls : Submit(u, "insta_downloads")
    \/ ExtractStep

SpecExtract == InitExtract /\ [][NextExtract]_vars

-----------------------------------------------------------------------------
(* Vocabulary of the properties *)

\* marker occurs in u and a character of the identifier class follows it
FollowedById(u, marker) ==
    \E i \in 1..Len(u) :
        /\ i + Len(marker) <= Len(u)
        /\ SubSeq(u, i, i + Len(marker) - 1) = marker
        /\ SubSeq(u, i + Len(marker), i + Len(marker)) \in IdChars

\* a non-empty URL that matches none of the identifier patterns
Unrecognized(u) == u # "" /\ \A k \in 1..Len(patterns) : ~FollowedById(u, patterns[k])

\* c is the maximal run of identifier characters right after the leftmost
\* occurrence of marker that such a character follows
IsCaptureAfter(u, marker, c) ==
    \E i \in 1..Len(u) :
        /\ i + Len(marker) <= Len(u)
        /\ SubSeq(u, i, i + Len(marker) - 1) = marker
        /\ SubSeq(u, i + Len(marker), i + Len(marker)) \in IdChars
        /\ \A j \in 1..(i - 1) :
              ~(/\ SubSeq(u, j, j + Len(marker) - 1) = marker
                /\ SubSeq(u, j + Len(marker), j + Len(marker)) \in IdChars)
        /\ i + Len(marker) + Len(c) - 1 <= Len(u)
        /\ SubSeq(u, i + Len(marker), i + Len(marker) + Len(c) - 1) = c
        /\ \/ i + Len(marker) + Len(c) > Len(u)
           \/ SubSeq(u, i + Len(marker) + Len(c), i + Len(marker) + Len(c)) \notin IdChars

\* the request has got past the extraction
Extracted == pc \notin { "form", "submitted" }

\* move_and_collect_files has returned to main()
Relocated == pc \in { "display", "done" } /\ "success" \in ToSet(shown)

\* move_and_collect_files has taken its listing
Relocating == pc \in { "loop", "files" } \/ Relocated

Destination == Resolve(output_folder)

\* the content identities of the regular files at or below path p
FilesBelow(f, p) == { f[q] : q \in { r \in DOMAIN f : IsPrefix(p, r) /\ f[r] # 0 } }

PrivateMessage == "This post is private or requires a login."
NotFoundMessage == "This post could not be found (404 Error)."
RateLimitMessage == "Instagram rate limit reached. Please try again later."

\* the external tool has exited with a nonzero code and download_content has returned
FailedDownload == pc = "done" /\ proc = "exited" /\ returncode # 0

-----------------------------------------------------------------------------
(* Properties *)

\* the name an entry gets in a directory that holds the names taken: its own
\* name when free, otherwise base_k.ext for the smallest k >= 1 that is free
StoredName(name, taken) ==
    IF name \notin taken THEN name
    ELSE LET base == os_path_splitext(name)[1]
             ext == os_path_splitext(name)[2]
             Free(k) == (base \o "_" \o Str(k) \o ext) \notin taken
             k == CHOOSE n \in 1..(Cardinality(taken) + 1) :
                      Free(n) /\ \A m \in 1..(n - 1) : ~Free(m)
         IN  base \o "_" \o Str(k) \o ext

\* the collision rule alone, at every move
CollisionRule ==
    last_move # NoMove =>
        LET target == Resolve(last_move.destination)
        IN  /\ Parent(target) = Destination
            /\ target[Len(target)] =
                  StoredName(last_move.file, os_listdir(last_move.before, Destination))
            /\ target \notin DOMAIN last_move.before

\* C1: every relocated file is stored under its own name, or under base_k.ext
\* for the smallest free k >= 1 when the destination holds that name; no entry
\* the destination held before the relocation is overwritten, renamed or
\* removed; the relocated files bear pairwise different names.
C1_AsClaimed ==
    Relocating =>
        /\ CollisionRule
        /\ \A p \in DOMAIN fs_at_move :
              (IsPrefix(Destination, p) /\ p # Destination) =>
                  (p \in DOMAIN fs /\ fs[p] = fs_at_move[p])
        /\ \A i, j \in 1..Len(moved_files_paths) :
              i # j => Resolve(moved_files_paths[i]) # Resolve(moved_files_paths[j])

\* C2: a submitted non-empty URL that matches none of the identifier patterns
\* makes extract_shortcode raise the format error; the request ends with the
\* invalid-URL message alone, no download process is launched and nothing is
\* relocated (the file system is as it was when the request was submitted).
C2_UnrecognizedUrlStopsRequest ==
    (Extracted /\ Unrecognized(url)) =>
        /\ pc = "done"
        /\ shown = << "invalid_url" >>
        /\ message = "Invalid Instagram post URL format."
        /\ launches = 0
        /\ proc = "none"
        /\ visited = {}
        /\ moved_files_paths = << >>
        /\ fs = fs_before

C2_Witness ==
    /\ pc = "done"
    /\ url = "https://www.instagram.com/p/"
    /\ shown = << "invalid_url" >>
    /\ launches = 0

\* C3, as claimed: after a nonzero exit download_content returns failure; a
\* text containing "Private" yields the private-account message, a text
\* containing "404" the not-found message, and every other text the generic
\* message, which contains the raw error text.
C3_AsClaimed ==
    FailedDownload =>
        /\ shown = << "download_failed" >>
        /\ Contains("Private", stderr) => message = PrivateMessage
        /\ Contains("404", stderr) => message = NotFoundMessage
        /\ (~Contains("Private", stderr) /\ ~Contains("404", stderr)) =>
              /\ StartsWith(message, "Download failed: ")
              /\ Contains(stderr, message)

\* C3, amended: after a nonzero exit download_content returns failure; a text
\* containing "Private" or "Login required" yields the private-account
\* message; otherwise a text containing "404" or, in any letter case,
\* "not found" yields the not-found message; otherwise a text containing
\* "Rate limit" yields the rate-limit message; every other text yields the
\* generic message, made of "Download failed: " and the text without its
\* surrounding whitespace, or "Unknown error" when nothing is left of it.
C3_Classification ==
    FailedDownload =>
        /\ shown = << "download_failed" >>
        /\ LET private == Contains("Private", stderr) \/ Contains("Login required", stderr)
               missing == Contains("404", stderr) \/ Contains("not found", Lower(stderr))
               limited == Contains("Rate limit", stderr)
           IN  /\ private => message = PrivateMessage
               /\ (~private /\ missing) => message = NotFoundMessage
               /\ (~private /\ ~missing /\ limited) => message = RateLimitMessage
               /\ (~private /\ ~missing /\ ~limited) =>
                     \/ \E i, j \in 1..Len(stderr) :
                           /\ i <= j
                           /\ ~IsSpace(SubSeq(stderr, i, i))
                           /\ ~IsSpace(SubSeq(stderr, j, j))
                           /\ \A k \in 1..Len(stderr) :
                                 (k < i \/ k > j) => IsSpace(SubSeq(stderr, k, k))
                           /\ message = "Download failed: " \o SubSeq(stderr, i, j)
                     \/ /\ \A k \in 1..Len(stderr) : IsSpace(SubSeq(stderr, k, k))
                        /\ message = "Download failed: Unknown error"

C3_Witness ==
    /\ FailedDownload
    /\ stderr = "timed out "
    /\ message = "Download failed: timed out"

\* C4: after the tool exited with code 0 and no file system fault was raised,
\* once the relocation has returned the working directory no longer holds the
\* directory the tool created, and all the files it held are in the
\* destination folder.
C4_AsClaimed ==
    (Relocated /\ returncode = 0 /\ faults = 0) =>
        \A d \in tool_dirs :
            /\ << d >> \notin DOMAIN fs
            /\ FilesBelow(fs_at_move, << d >>) \subseteq FilesBelow(fs, Destination)

\* C5: for a URL that holds "/p/" or "/reel/" followed by an identifier
\* character, extract_shortcode does not raise; it returns a non-empty string
\* of identifier characters, the maximal run of such characters right after
\* the leftmost occurrence of the first pattern, in the order instagram.com/p/,
\* instagram.com/reel/, /p/, /reel/, that matches.
C5_FirstPatternCapture ==
    (Extracted /\ (FollowedById(url, "/p/") \/ FollowedById(url, "/reel/"))) =>
        /\ pc = "launch"
        /\ shown = << >>
        /\ shortcode # ""
        /\ \A i \in 1..Len(shortcode) : SubSeq(shortcode, i, i) \in IdChars
        /\ \E k \in 1..4 :
              /\ FollowedById(url, patterns[k])
              /\ \A j \in 1..(k - 1) : ~FollowedById(url, patterns[j])
              /\ IsCaptureAfter(url, patterns[k], shortcode)

C5_Witness ==
    /\ pc = "launch"
    /\ url = "/reel/p/Cx1"
    /\ shortcode = "Cx1"

\* a step that issues a warning leaves the loop where it was
C6_WarningStep ==
    (warnings' # warnings) =>
        /\ pc = "files"
        /\ pc' = "loop"
        /\ warnings' = warnings \cup { item }
        /\ items' = items
        /\ moved_files_paths' = moved_files_paths

\* the list of moved files only grows
C6_ListGrows ==
    /\ Len(moved_files_paths) <= Len(moved_files_paths')
    /\ SubSeq(moved_files_paths', 1, Len(moved_files_paths)) = moved_files_paths

\* after a warning the request still reports success, and every directory of
\* the listing that passes the condition was processed
C6_AfterReturn ==
    (pc \in { "display", "done" } /\ warnings # {}) =>
        /\ "success" \in ToSet(shown)
        /\ \A d \in os_listdir(fs_at_move, << >>) :
              (/\ IsDirPath(fs_at_move, << d >>)
               /\ d # output_folder
               /\ ~StartsWith(d, ".")) => d \in visited

\* C6: when moving the contents of a source directory raises a file system
\* error, a warning is issued for that directory and the loop goes on: the
\* list of moved files keeps every entry it had, every directory of the
\* listing that passes the condition is still processed, and the request
\* reports success.
C6_WarningDoesNotAbort ==
    /\ [][C6_WarningStep /\ C6_ListGrows]_vars
    /\ [](C6_AfterReturn)

\* the tool's directory fails after its first file; the user's directory is
\* processed afterwards and its a.jpg is stored as a_1.jpg
C6_Witness ==
    /\ pc = "done"
    /\ faults = 1
    /\ warnings = { "-Cx1" }
    /\ output_folder = "insta_downloads"
    /\ moved_files_paths = << "insta_downloads/a.jpg", "insta_downloads/a_1.jpg" >>
    /\ << "insta_downloads", "a_1.jpg" >> \in DOMAIN fs
    /\ fs[<< "insta_downloads", "a_1.jpg" >>] = 3
    /\ shown = << "success" >>

\* C7: a directory that was in the working directory before the download, was
\* not created by the tool and does not hold the destination is left as it
\* was: nothing is moved out of it and it is not deleted.
C7_AsClaimed ==
    Relocating =>
        \A p \in DOMAIN fs_before :
            (/\ fs_before[<< p[1] >>] = 0
             /\ p[1] \notin tool_dirs
             /\ ~IsPrefix(<< p[1] >>, Destination)) =>
                (p \in DOMAIN fs /\ fs[p] = fs_before[p])

\* C8, as claimed: the downloader is launched at most once per request, an
\* outcome is shown only after the launched process has exited, and success
\* is reported if and only if its exit code is 0.
C8_AsClaimed ==
    /\ launches <= 1
    /\ (launches = 1 /\ pc \in { "move", "loop", "files", "display", "done" }) => proc = "exited"
    /\ (pc = "done" /\ proc = "exited") => ("success" \in ToSet(shown) <=> returncode = 0)

\* C8, amended: the downloader is launched at most once per request, a failed
\* download is followed by no other launch, an outcome is shown only after
\* the launched process has exited, and success is reported only if its exit
\* code is 0; with exit code 0 success is reported unless creating the output
\* folder raised, and then the unexpected-error message is the outcome.
C8_SingleLaunch ==
    /\ launches <= 1
    /\ (launches = 1 /\ pc \in { "move", "loop", "files", "display", "done" }) => proc = "exited"
    /\ "download_failed" \in ToSet(shown) => (pc = "done" /\ proc # "running")
    /\ "success" \in ToSet(shown) => (proc = "exited" /\ returncode = 0)
    /\ (pc = "done" /\ proc = "exited" /\ returncode # 0) => shown = << "download_failed" >>
    /\ (pc = "done" /\ proc = "exited" /\ returncode = 0 /\ "success" \notin ToSet(shown)) =>
          /\ shown = << "unexpected" >>
          /\ ~os_path_exists(fs, output_folder)
          /\ makedirs_raises(fs, output_folder)

C8_Witness ==
    /\ pc = "done"
    /\ launches = 1
    /\ proc = "exited"
    /\ returncode = 0
    /\ shown = << "unexpected" >>

\* C9: whatever the folder field holds, neither the destination directory nor
\* one of its ancestors is processed as a source directory; when the function
\* has returned the destination directory exists and every returned path
\* names a file inside it.
C9_AsClaimed ==
    /\ Relocating => \A d \in visited : ~IsPrefix(<< d >>, Destination)
    /\ Relocated =>
          /\ IsDirPath(fs, Destination)
          /\ \A k \in 1..Len(moved_files_paths) :
                /\ Resolve(moved_files_paths[k]) \in DOMAIN fs
                /\ IsPrefix(Destination, Resolve(moved_files_paths[k]))

\* C10: no file of a processed source directory is lost: at every moment of
\* the relocation and after it, each file the directory held is in the
\* destination folder or still in that directory.
C10_AsClaimed ==
    Relocating =>
        \A d \in visited :
            FilesBelow(fs_at_move, << d >>) \subseteq
                (FilesBelow(fs, Destination) \cup FilesBelow(fs, << d >>))

====
